---- MODULE Spec2Model ----
(***************************************************************************)
(* The UDP relay dispatcher of src/relay/udp_relay.rs: the listening       *)
(* socket's receive cycle (handle_events), request handling                *)
(* (handle_request), the session table kept in two indices (processors,    *)
(* cache), session creation and destruction, and the two reactor callbacks *)
(* ready and timeout.  Every callback runs to completion, so each action   *)
(* below is one whole callback; a callback is computed by operators that   *)
(* thread a record `s` of the relay's fields through the statements of the *)
(* source, in source order.                                                *)
(***************************************************************************)
EXTENDS Integers, Sequences, FiniteSets, TLC

\* ------------------------------------------------------------------ bounds
NumAddrs == 2
PoolSize == 2

\* --------------------------------------------------------------- constants
ListenToken == 0
DnsToken == 1
IvLen == 1

Addrs == 1..NumAddrs
PoolTokens == 2..(1 + PoolSize)
NoToken == 0 - 1

VARIABLES
    sslocal,      \* cfg!(feature = "sslocal"): the role the binary was built for
    processors,   \* Holder items: token -> session handle
    allocated,    \* Holder allocator: the tokens handed out and not freed
    recycled,     \* Holder allocator: the free tokens that were in use before
    cache,        \* Dict: client address -> session handle
    receive_buf,  \* "Some" | "None"
    borrowed,     \* tokens of the session cells that are mutably borrowed
    panicked,     \* a callback panicked: the relay thread has unwound
    armed,        \* the one-shot registration of the listener is enabled
    staleTimers,  \* tokens with a timer left pending by a destroyed session
    last          \* what the last callback was given and what it did

vars == <<sslocal, processors, allocated, recycled, cache, receive_buf, borrowed,
          panicked, armed, staleTimers, last>>

Restrict(f, S) == [x \in S |-> f[x]]

\* ------------------------------------------------------------ wire formats
\* Length of DST.ADDR for the address type in data[1]; -1 when the type is
\* unknown or the length byte of a domain name is missing.
AddrLen(data) ==
    CASE data[1] = 1 -> 4
      [] data[1] = 3 -> IF Len(data) >= 2 THEN 1 + data[2] ELSE 0 - 1
      [] data[1] = 4 -> 16
      [] OTHER -> 0 - 1

NoHeader == [ok |-> FALSE, atyp |-> 0, length |-> 0]

\* ATYP(1) | DST.ADDR(var) | DST.PORT(2) | DATA(var)
parse_header(data) ==
    IF Len(data) = 0 THEN NoHeader
    ELSE LET n == AddrLen(data) IN
         IF n < 0 \/ Len(data) < 1 + n + 2 THEN NoHeader
         ELSE [ok |-> TRUE, atyp |-> data[1], length |-> 1 + n + 2]

\* The cipher, reduced to a keystream fixed by the IV: byte i of the
\* plaintext is the byte after the IV minus the IV byte.
Decrypt(buf) ==
    [i \in 1..(Len(buf) - IvLen) |-> (buf[i + IvLen] + 4 - buf[1]) % 4]

Encrypt(iv, data) ==
    <<iv>> \o [i \in 1..Len(data) |-> (data[i] + iv) % 4]

\* IV(fixed) | PAYLOAD; None when the datagram is rejected.
decrypt_udp(buf, auth) ==
    IF ~auth \/ Len(buf) <= IvLen THEN [ok |-> FALSE, data |-> <<>>]
    ELSE [ok |-> TRUE, data |-> Decrypt(buf)]

\* -------------------------------------------------------- callback records
Step(s, label) == [s EXCEPT !.trace = Append(@, label)]

Panic(s, why) == [s EXCEPT !.panicked = TRUE, !.trace = Append(@, why)]

Fail(s, e) == [s EXCEPT !.res = e]

\* the callback consults outcome f of a collaborator
Use(s, f) == [s EXCEPT !.used = @ \cup {f}]

\* ------------------------------------------------------ Holder and Dict
Free(s) == PoolTokens \ s.allocated

Holder_alloc_token(s, pick) ==
    IF Free(s) = {} THEN NoToken
    ELSE IF pick \in Free(s) THEN pick
    ELSE CHOOSE t \in Free(s) : TRUE

\* the token alloc_token returned is no longer free
Holder_take(s, token) ==
    [s EXCEPT !.allocated = @ \cup {token},
              !.recycled = @ \ {token},
              !.alloc = token,
              !.reused = token \in s.recycled,
              !.trace = Append(@, "alloc_token")]

Holder_insert_with(s, token, p) ==
    [s EXCEPT !.processors = [t \in DOMAIN @ \cup {token} |->
                                 IF t = token THEN p ELSE @[t]],
              !.trace = Append(@, "processors.insert")]

Holder_remove(s, token) ==
    [s EXCEPT !.processors = Restrict(@, DOMAIN @ \ {token}),
              !.allocated = @ \ {token},
              !.recycled = @ \cup {token},
              !.trace = Append(Append(@, "processors.remove"), "free_token")]

Dict_insert(s, addr, p) ==
    [s EXCEPT !.cache = [a \in DOMAIN @ \cup {addr} |->
                            IF a = addr THEN p ELSE @[a]],
              !.trace = Append(@, "cache.insert")]

Dict_remove(s, addr) ==
    [s EXCEPT !.cache = Restrict(@, DOMAIN @ \ {addr}),
              !.trace = Append(@, "cache.remove")]

\* ---------------------------------------------------------------- UdpRelay
\* variant: the address entry is removed, the id entry is only looked up
remove_processor_AddrOnly(s, token) ==
    IF token \notin DOMAIN s.processors THEN s
    ELSE Dict_remove(s, s.processors[token].addr)

\* variant: the id entry is removed (and its token freed), the address entry stays
remove_processor_IdOnly(s, token) ==
    IF token \notin DOMAIN s.processors THEN s
    ELSE Holder_remove(s, token)

remove_processor(s, token) ==
    IF token \notin DOMAIN s.processors THEN s
    ELSE LET p == s.processors[token] IN
         Dict_remove(Holder_remove(s, token), p.addr)

\* The handler's destroy(): the session's teardown.  The reactor has no
\* cancellation beyond it, and a timer may still fire for a destroyed
\* token: the timer of the session stays pending unless it is the one
\* that is firing.
Processor_destroy(s, token) ==
    [Step(s, "destroy") EXCEPT
        !.staleTimers = IF s.firing = "own" THEN @ ELSE @ \cup {token}]

\* variant: the handler is torn down but the session is not removed
destroy_processor_NoRemove(s, token) ==
    IF token \notin DOMAIN s.processors THEN Panic(s, "panic:index")
    ELSE IF token \in s.borrowed THEN Panic(s, "panic:borrow_mut")
    ELSE Processor_destroy(s, token)

\* self.processors[token] panics when the token is absent; borrow_mut()
\* panics when the cell is already mutably borrowed.
destroy_processor(s, token) ==
    IF token \notin DOMAIN s.processors THEN Panic(s, "panic:index")
    ELSE IF token \in s.borrowed THEN Panic(s, "panic:borrow_mut")
    ELSE remove_processor(Processor_destroy(s, token), token)

create_processor(s, token, client_addr, env) ==
    IF ~env.newOk THEN Fail(Step(Use(s, "newOk"), "new:err"), "NewFailed")
    ELSE LET p  == [token |-> token, addr |-> client_addr]
             s1 == Step(Use(s, "newOk"), "new")
             s2 == Dict_insert(Holder_insert_with(s1, token, p), client_addr, p)
             s3 == Use(Step(s2, "add_caller"), "regOk")
         IN  IF env.regOk THEN Step(s3, "register")
             ELSE LET s4 == [Step(s3, "register:err") EXCEPT !.borrowed = {token}]
                      s5 == destroy_processor(s4, token)
                  IN  IF s5.panicked THEN s5
                      ELSE [s5 EXCEPT !.borrowed = {}, !.res = "RegisterFailed"]

\* variant: the session is looked up and created before the header is checked
handle_request_ParseLate(s, client_addr, data, env) ==
    LET header == parse_header(data)
        s0 == [Step(s, "parse_header") EXCEPT !.requested = TRUE, !.request = data]
        s1 == IF client_addr \notin DOMAIN s0.cache
              THEN LET token == Holder_alloc_token(s0, env.pick) IN
                   IF token = NoToken THEN Fail(s0, "AllocTokenFailed")
                   ELSE create_processor(Holder_take(s0, token),
                                         token, client_addr, env)
              ELSE s0
    IN  IF s1.panicked \/ s1.res # "Ok" THEN s1
        ELSE IF ~header.ok THEN Fail(s1, "InvalidHeader")
        ELSE [Step(Use(s1, "hrOk"), "handler.handle_request") EXCEPT
                  !.delivered = TRUE,
                  !.target = s1.cache[client_addr],
                  !.res = IF env.hrOk THEN "Ok" ELSE "HandlerError"]

\* variant: a handler error on the request path destroys the session
handle_request_DestroyOnError(s, client_addr, data, env) ==
    LET header == parse_header(data)
        s0 == [Step(s, "parse_header") EXCEPT !.requested = TRUE, !.request = data]
    IN  IF ~header.ok THEN Fail(s0, "InvalidHeader")
        ELSE LET s1 == IF client_addr \notin DOMAIN s0.cache
                       THEN LET token == Holder_alloc_token(s0, env.pick) IN
                            IF token = NoToken THEN Fail(s0, "AllocTokenFailed")
                            ELSE create_processor(Holder_take(s0, token),
                                                  token, client_addr, env)
                       ELSE s0
             IN  IF s1.panicked \/ s1.res # "Ok" THEN s1
                 ELSE LET s2 == [Step(Use(s1, "hrOk"), "handler.handle_request") EXCEPT
                                     !.delivered = TRUE,
                                     !.target = s1.cache[client_addr]]
                      IN  IF env.hrOk THEN s2
                          ELSE Fail(destroy_processor(s2, s1.cache[client_addr].token),
                                    "HandlerError")

\* variant: an exhausted pool is not expected
handle_request_AllocUnwrap(s, client_addr, data, env) ==
    LET header == parse_header(data)
        s0 == [Step(s, "parse_header") EXCEPT !.requested = TRUE, !.request = data]
    IN  IF ~header.ok THEN Fail(s0, "InvalidHeader")
        ELSE LET s1 == IF client_addr \notin DOMAIN s0.cache
                       THEN LET token == Holder_alloc_token(s0, env.pick) IN
                            IF token = NoToken THEN Panic(s0, "panic:unwrap")
                            ELSE create_processor(Holder_take(s0, token),
                                                  token, client_addr, env)
                       ELSE s0
             IN  IF s1.panicked \/ s1.res # "Ok" THEN s1
                 ELSE IF Len(data) > 0
                      THEN [Step(Use(s1, "hrOk"), "handler.handle_request") EXCEPT
                                !.delivered = TRUE,
                                !.target = s1.cache[client_addr],
                                !.res = IF env.hrOk THEN "Ok" ELSE "HandlerError"]
                      ELSE s1

handle_request(s, client_addr, data, env) ==
    LET header == parse_header(data)
        s0 == [Step(s, "parse_header") EXCEPT !.requested = TRUE, !.request = data]
    IN  IF ~header.ok THEN Fail(s0, "InvalidHeader")
        ELSE LET s1 == IF client_addr \notin DOMAIN s0.cache
                       THEN LET token == Holder_alloc_token(s0, env.pick) IN
                            IF token = NoToken THEN Fail(s0, "AllocTokenFailed")
                            ELSE create_processor(Holder_take(s0, token),
                                                  token, client_addr, env)
                       ELSE s0
             IN  IF s1.panicked \/ s1.res # "Ok" THEN s1
                 ELSE IF Len(data) > 0
                      THEN [Step(Use(s1, "hrOk"), "handler.handle_request") EXCEPT
                                !.delivered = TRUE,
                                !.target = s1.cache[client_addr],
                                !.res = IF env.hrOk THEN "Ok" ELSE "HandlerError"]
                      ELSE s1

\* variant: a short datagram is reported as an error of the cycle
short_datagram_Error(s) == Fail(Step(s, "too_short"), "TooShort")

\* lines 189-190: a datagram shorter than RSV(2) + FRAG(1) is dropped
short_datagram(s) == Step(s, "too_short")

\* variant: only RSV is skipped
client_datagram_Offset2(s, addr, buf, env) ==
    IF buf[3] = 0
    THEN handle_request(s, addr, SubSeq(buf, 3, Len(buf)), env)
    ELSE Step(s, "drop_frag")

\* lines 196-201 (sslocal): FRAG must be 0; RSV and FRAG are skipped
client_datagram(s, addr, buf, env) ==
    IF buf[3] = 0
    THEN handle_request(s, addr, SubSeq(buf, 4, Len(buf)), env)
    ELSE Step(s, "drop_frag")

\* variant: a datagram that does not decrypt is handled as it was received
server_datagram_Fallthrough(s, addr, buf, env) ==
    LET decrypted == decrypt_udp(buf, env.auth) IN
    handle_request(Step(Use(s, "auth"), "decrypt_udp"), addr,
                   IF decrypted.ok THEN decrypted.data ELSE buf, env)

\* lines 203-211 (ssserver): the whole datagram is decrypted
server_datagram(s, addr, buf, env) ==
    LET decrypted == decrypt_udp(buf, env.auth) IN
    IF decrypted.ok
    THEN handle_request(Step(Use(s, "auth"), "decrypt_udp"), addr,
                        decrypted.data, env)
    ELSE Fail(Step(Use(s, "auth"), "decrypt_udp"), "DecryptFailed")

\* lines 185-216: the match on the result of recv_from
\* recv: [kind |-> "none" | "err" | "data", dgram, addr]
received(s, role, recv, env) ==
    IF recv.kind # "data" THEN s
    ELSE IF Len(recv.dgram) < 3 THEN short_datagram(s)
    ELSE IF role THEN client_datagram(s, recv.addr, recv.dgram, env)
    ELSE server_datagram(s, recv.addr, recv.dgram, env)

\* variant: an error of the cycle is returned at once, as with `?`
handle_events_EarlyReturn(s, role, events, recv, env) ==
    IF ~env.reregOk THEN Fail(Step(s, "reregister:err"), "ReregisterFailed")
    ELSE LET s0 == [Step(s, "reregister") EXCEPT !.armed = TRUE] IN
    IF events = "error" THEN Fail(s0, "EventError")
    ELSE IF s0.receive_buf = "None" THEN Panic(s0, "panic:unwrap")
    ELSE LET s1 == [Step(s0, "take_buf") EXCEPT !.receive_buf = "None"]
             s2 == received(Step(s1, "recv_from"), role, recv, env)
         IN  IF s2.panicked \/ s2.res # "Ok" THEN s2
             ELSE [Step(s2, "put_buf") EXCEPT !.receive_buf = "Some"]

\* variant: error readiness is answered before the listener is reregistered
handle_events_ErrorFirst(s, role, events, recv, env) ==
    IF events = "error" THEN Fail(s, "EventError")
    ELSE IF ~env.reregOk THEN Fail(Step(s, "reregister:err"), "ReregisterFailed")
    ELSE LET s0 == [Step(s, "reregister") EXCEPT !.armed = TRUE] IN
    IF s0.receive_buf = "None" THEN Panic(s0, "panic:unwrap")
    ELSE LET s1 == [Step(s0, "take_buf") EXCEPT !.receive_buf = "None"]
             s2 == received(Step(s1, "recv_from"), role, recv, env)
         IN  IF s2.panicked THEN s2
             ELSE [Step(s2, "put_buf") EXCEPT !.receive_buf = "Some"]

\* handle_events(): the listener is reregistered (edge, one-shot) first; a
\* failed reregister returns with `?` and leaves the registration disabled.
handle_events(s, role, events, recv, env) ==
    IF ~env.reregOk THEN Fail(Step(s, "reregister:err"), "ReregisterFailed")
    ELSE LET s0 == [Step(s, "reregister") EXCEPT !.armed = TRUE] IN
    IF events = "error" THEN Fail(s0, "EventError")
    ELSE IF s0.receive_buf = "None" THEN Panic(s0, "panic:unwrap")
    ELSE LET s1 == [Step(s0, "take_buf") EXCEPT !.receive_buf = "None"]
             s2 == received(Step(s1, "recv_from"), role, recv, env)
         IN  IF s2.panicked THEN s2
             ELSE [Step(s2, "put_buf") EXCEPT !.receive_buf = "Some"]

\* variant: the benign ConnectionClosed error leaves the session in place
ready_KeepOnClosed(s, token, outcome) ==
    IF token \notin DOMAIN s.processors THEN s
    ELSE LET s1 == Fail(Step(s, "handler.handle_events"), outcome) IN
         IF outcome \in {"Ok", "ConnectionClosed"} THEN s1
         ELSE destroy_processor(s1, token)

\* ready() for a session token; outcome is what the handler's handle_events
\* returned ("Ok", "ConnectionClosed", "OtherError").
ready(s, token, outcome) ==
    IF token \notin DOMAIN s.processors THEN s
    ELSE LET s1 == Fail(Step(s, "handler.handle_events"), outcome) IN
         IF outcome = "Ok" THEN s1
         ELSE destroy_processor(s1, token)

\* variant: the timed-out token is removed from the id index directly
timeout_HolderOnly(s, token) ==
    IF token \notin DOMAIN s.processors THEN s
    ELSE Holder_remove(Processor_destroy(s, token), token)

timeout(s, token) == destroy_processor(s, token)

\* ------------------------------------------------------------ state machine
Envs ==
    [pick : PoolTokens, newOk : BOOLEAN, regOk : BOOLEAN, hrOk : BOOLEAN,
     auth : BOOLEAN, reregOk : BOOLEAN]

Env0 ==
    [pick |-> 2, newOk |-> TRUE, regOk |-> TRUE, hrOk |-> TRUE,
     auth |-> TRUE, reregOk |-> TRUE]

NoSession == [token |-> NoToken, addr |-> 0]

Cur ==
    [processors |-> processors, allocated |-> allocated,
     recycled |-> recycled, cache |-> cache,
     receive_buf |-> receive_buf, borrowed |-> borrowed, panicked |-> panicked,
     armed |-> armed, staleTimers |-> staleTimers, firing |-> "none",
     trace |-> <<>>, res |-> "Ok", used |-> {"reregOk"},
     requested |-> FALSE, request |-> <<>>, delivered |-> FALSE,
     target |-> NoSession, alloc |-> NoToken, reused |-> FALSE]

NoDgram == [kind |-> "none", dgram |-> <<>>, addr |-> 0]

\* env with every outcome the callback did not consult set to its default
Consulted(env, used) ==
    [f \in DOMAIN env |-> IF f \in used THEN env[f] ELSE Env0[f]]

\* the session the callback's token is mapped to when the callback starts
Victim(token) ==
    IF token \in DOMAIN processors THEN processors[token] ELSE NoSession

\* the callback left every entry of another token or address, and every
\* other allocated token, as it was
OthersKept(s, token) ==
    /\ \A t \in DOMAIN processors \ {token} :
           t \in DOMAIN s.processors /\ s.processors[t] = processors[t]
    /\ \A a \in DOMAIN cache \ {Victim(token).addr} :
           a \in DOMAIN s.cache /\ s.cache[a] = cache[a]
    /\ allocated \ {token} \subseteq s.allocated

Commit(s, op, token, input) ==
    /\ processors' = s.processors
    /\ allocated' = s.allocated
    /\ recycled' = s.recycled
    /\ cache' = s.cache
    /\ receive_buf' = s.receive_buf
    /\ borrowed' = s.borrowed
    /\ panicked' = s.panicked
    /\ armed' = s.armed
    /\ staleTimers' = s.staleTimers
    /\ last' = [op |-> op, token |-> token,
                present |-> token \in DOMAIN processors,
                known |-> input.recv.addr \in DOMAIN cache,
                full |-> PoolTokens \subseteq allocated,
                victim |-> Victim(token),
                othersKept |-> OthersKept(s, token),
                kept |-> /\ s.processors = processors
                         /\ s.cache = cache
                         /\ s.allocated = allocated,
                input |-> [input EXCEPT !.env = Consulted(@, s.used)],
                res |-> s.res, trace |-> s.trace,
                requested |-> s.requested, request |-> s.request,
                delivered |-> s.delivered, target |-> s.target,
                alloc |-> s.alloc, reused |-> s.reused, firing |-> s.firing]
    /\ UNCHANGED sslocal

\* inner datagrams: ATYP | DST.ADDR | DST.PORT | DATA
Inner == { <<3, 0, 0, 1>>, <<1, 0, 0, 0, 1, 0, 1, 2>>, <<3, 1, 2>> }

Short == {<<>>, <<0>>, <<0, 0>>}

\* client-facing datagrams: RSV RSV FRAG | inner
Plain ==
    { <<0, 0, 0>> \o d : d \in Inner \cup {<<>>} }
        \cup { <<0, 0, 1, 3, 0, 0, 1>> }

\* server-facing datagrams: IV | encrypted inner
Sealed == { Encrypt(1, d) : d \in Inner }

\* The datagrams drawn in each role: those of its side of the protocol and
\* one of the other side.
ClientDatagrams == Short \cup Plain \cup {Encrypt(1, <<3, 0, 0, 1>>)}

ServerDatagrams == Short \cup Sealed \cup {<<0, 0, 0, 3, 0, 0, 1>>}

Datagrams == IF sslocal THEN ClientDatagrams ELSE ServerDatagrams

\* The outcomes of the collaborators for one datagram.  An outcome that can
\* not be consulted (register after a failed new, the handler after a failed
\* register, anything after a failed decryption) is left at its default, so
\* that each behaviour is drawn once.
DataEnvs ==
    { e \in Envs :
        /\ e.reregOk
        /\ ~e.auth => (e.newOk /\ e.hrOk /\ e.pick = Env0.pick)
        /\ ~e.newOk => e.regOk
        /\ ~e.regOk => e.hrOk }

NoInput == [events |-> "none", recv |-> NoDgram, env |-> Env0]

\* What one readiness notification of the listening socket brings.
\* what recv_from returns: a datagram and its source, nothing, or an error
RecvsOf(dgrams) ==
    [kind : {"data"}, dgram : dgrams, addr : Addrs]
        \cup {NoDgram, [kind |-> "err", dgram |-> <<>>, addr |-> 0]}

ClientRecvs == RecvsOf(ClientDatagrams)

ServerRecvs == RecvsOf(ServerDatagrams)

Recvs == IF sslocal THEN ClientRecvs ELSE ServerRecvs

\* outcomes for a datagram without a header, and for one of a known source
PlainEnvs ==
    { e \in DataEnvs :
        e.newOk /\ e.regOk /\ e.hrOk /\ e.pick = Env0.pick }

KnownEnvs == { e \in DataEnvs : e.newOk /\ e.regOk /\ e.pick = Env0.pick }

\* readiness that ends before recv_from: error readiness, a failed reregister
EarlyInputs ==
    { [events |-> "error", recv |-> NoDgram, env |-> Env0],
      [events |-> "readable", recv |-> NoDgram,
       env |-> [Env0 EXCEPT !.reregOk = FALSE]] }

Init ==
    /\ sslocal \in BOOLEAN
    /\ processors = <<>>
    /\ allocated = {}
    /\ recycled = {}
    /\ cache = <<>>
    /\ receive_buf = "Some"
    /\ borrowed = {}
    /\ panicked = FALSE
    /\ armed = TRUE
    /\ staleTimers = {}
    /\ last = [op |-> "init", token |-> NoToken, present |-> FALSE,
               known |-> FALSE, full |-> FALSE, kept |-> TRUE,
               victim |-> NoSession, othersKept |-> TRUE,
               input |-> NoInput, res |-> "Ok", trace |-> <<>>,
               requested |-> FALSE, request |-> <<>>, delivered |-> FALSE,
               target |-> NoSession, alloc |-> NoToken, reused |-> FALSE,
               firing |-> "none"]

\* the datagram reaches parse_header in the role of this build and carries
\* a header
Parses(dgram) ==
    /\ Len(dgram) >= 3
    /\ IF sslocal
       THEN dgram[3] = 0 /\ parse_header(SubSeq(dgram, 4, Len(dgram))).ok
       ELSE parse_header(decrypt_udp(dgram, TRUE).data).ok

\* The outcomes drawn for what recv_from returned.  An outcome that the
\* callback can not consult in the current state (the decryption in the
\* client role, the session and its handler for a datagram without a
\* header, the creation of a session for a source that has one, a
\* preference for a token that is not free) is drawn at its default only.
EnvsFor(recv) ==
    IF recv.kind # "data" \/ Len(recv.dgram) < 3 THEN {Env0}
    ELSE LET envs ==
                 IF ~Parses(recv.dgram) THEN PlainEnvs
                 ELSE IF recv.addr \in DOMAIN cache THEN KnownEnvs
                 ELSE { e \in DataEnvs :
                          e.pick \in Free([allocated |-> allocated])
                                         \cup {Env0.pick} }
         IN  IF sslocal THEN { e \in envs : e.auth } ELSE envs

\* one cycle of the listener for the input i
Listen(i) ==
    Commit(handle_events([Cur EXCEPT !.armed = FALSE], sslocal,
                         i.events, i.recv, i.env),
           "listen", ListenToken, i)

\* ready(token == self.token): errors of handle_events are only logged.
\* The registration is one-shot: delivering the event disables it until
\* handle_events reregisters the listener.
ReadyListen ==
    /\ ~panicked
    /\ armed
    /\ \/ \E i \in EarlyInputs : Listen(i)
       \/ \E recv \in Recvs : \E env \in EnvsFor(recv) :
              Listen([events |-> "readable", recv |-> recv, env |-> env])

\* ready(token == self.dns_token): forwarded to the resolver
ReadyDns ==
    /\ ~panicked
    /\ Commit(Step(Cur, "dns.handle_events"), "dns", DnsToken, NoInput)

ReadySession ==
    /\ ~panicked
    /\ \E token \in PoolTokens, outcome \in {"Ok", "ConnectionClosed", "OtherError"} :
           Commit(ready(Cur, token, outcome), "ready", token,
                  [NoInput EXCEPT !.events = outcome])

\* The reactor fires a timer by token: the timer of the live session of
\* that token ("own"), or one left pending by a session destroyed since
\* ("stale"), which is consumed by firing.
Timeout ==
    /\ ~panicked
    /\ \E token \in PoolTokens, kind \in {"own", "stale"} :
           /\ kind = "own" => token \in DOMAIN processors
           /\ kind = "stale" => token \in staleTimers
           /\ Commit(timeout([Cur EXCEPT !.firing = kind,
                                         !.staleTimers =
                                             IF kind = "stale" THEN @ \ {token}
                                             ELSE @],
                             token),
                     "timeout", token, NoInput)

Next == ReadyListen \/ ReadyDns \/ ReadySession \/ Timeout

Spec == Init /\ [][Next]_vars

\* ------------------------------------------------------------------ claims
Did(label) == \E i \in 1..Len(last.trace) : last.trace[i] = label

\* the tokens of the sessions the address index holds
CacheTokens == { cache[a].token : a \in DOMAIN cache }

\* the last callback was a receive cycle that got a datagram (last.kept
\* says that it left processors, cache and allocated as they were)
GotDatagram ==
    /\ last.op = "listen"
    /\ last.input.events = "readable"
    /\ last.input.env.reregOk
    /\ last.input.recv.kind = "data"

Dgram == last.input.recv.dgram

\* C1: between callbacks a session is stored under its token in processors
\* if and only if it is stored under its source address in cache, and the
\* two entries are the same session.
InvC1 ==
    /\ \A t \in DOMAIN processors :
           /\ processors[t].token = t
           /\ processors[t].addr \in DOMAIN cache
           /\ cache[processors[t].addr] = processors[t]
    /\ \A a \in DOMAIN cache :
           /\ cache[a].addr = a
           /\ cache[a].token \in DOMAIN processors
           /\ processors[cache[a].token] = cache[a]

\* a session was destroyed by ready or timeout while another one stays
WitC1 ==
    /\ last.op \in {"ready", "timeout"}
    /\ last.present
    /\ Did("cache.remove")
    /\ DOMAIN cache # {}

\* C2: two distinct source addresses with live sessions never have the same
\* token.
InvC2 ==
    \A a, b \in DOMAIN cache : a # b => cache[a].token # cache[b].token

\* a second session was just created with a token that had been used before
WitC2 ==
    /\ Cardinality(DOMAIN cache) >= 2
    /\ last.alloc # NoToken
    /\ last.reused

\* C3: a destruction attempt for a token that has no session (a timeout, or
\* a ready, delivered after the session was destroyed) does nothing and does
\* not panic.
CexC3 ==
    (last.op \in {"ready", "timeout"} /\ ~last.present)
        => /\ ~panicked
           /\ last.token \notin DOMAIN processors
           /\ last.token \notin CacheTokens

\* C4: when registering a new session's handler fails, the session is gone
\* from both indices, its token is free, the error is returned for this
\* packet and the relay has not panicked.
CexC4 ==
    (last.op = "listen" /\ Did("register:err"))
        => /\ ~panicked
           /\ last.res = "RegisterFailed"
           /\ last.alloc \notin DOMAIN processors
           /\ last.input.recv.addr \notin DOMAIN cache
           /\ last.alloc \notin allocated

\* C5: the token a callback obtains from the allocator is, when the callback
\* starts, the token of no session in either index, and no callback obtains
\* a token between the removal of a session from the id index and its
\* removal from the address index.
StepC5 ==
    /\ last'.alloc # NoToken
           => /\ last'.alloc \notin DOMAIN processors
              /\ last'.alloc \notin CacheTokens
    /\ \A i, j \in 1..Len(last'.trace) :
           (/\ i < j
            /\ last'.trace[i] = "processors.remove"
            /\ last'.trace[j] = "alloc_token")
               => \E k \in (i + 1)..(j - 1) : last'.trace[k] = "cache.remove"

ActC5 == [][StepC5]_vars

\* a token that was freed by a destruction was handed out again
WitC5 == last.alloc # NoToken /\ last.reused /\ last.alloc \in DOMAIN processors

CexC7 ==
    /\ (GotDatagram /\ last.known /\ last.requested /\ parse_header(last.request).ok)
           => (last.alloc = NoToken /\ ~Did("new"))
    /\ Cardinality(DOMAIN processors) = Cardinality(DOMAIN cache)
    /\ Cardinality(allocated) = Cardinality(DOMAIN cache)

\* C8: in the server role a datagram of at least 3 bytes that does not
\* decrypt gives DecryptFailed, request handling is not entered, and the
\* indices and the allocator are as before.
InvC8 ==
    (/\ ~sslocal
     /\ GotDatagram
     /\ Len(Dgram) >= 3
     /\ ~decrypt_udp(Dgram, last.input.env.auth).ok)
        => /\ last.res = "DecryptFailed"
           /\ ~last.requested
           /\ ~last.delivered
           /\ last.kept

\* the server failed to decrypt a datagram while a session exists
WitC8 ==
    /\ ~sslocal
    /\ GotDatagram
    /\ Len(Dgram) >= 3
    /\ ~decrypt_udp(Dgram, last.input.env.auth).ok
    /\ last.res = "DecryptFailed"
    /\ DOMAIN cache # {}

\* C9: in either role a datagram shorter than 3 bytes is dropped: no
\* decryption, no header parsing, result Ok, indices and allocator as before.
InvC9 ==
    (GotDatagram /\ Len(Dgram) < 3)
        => /\ last.res = "Ok"
           /\ ~last.requested
           /\ ~Did("decrypt_udp") /\ ~Did("parse_header") /\ ~Did("drop_frag")
           /\ last.kept

\* a datagram of 2 bytes was received while a session exists
WitC9 == GotDatagram /\ Len(Dgram) = 2 /\ last.res = "Ok" /\ DOMAIN cache # {}

\* C10: in the client role a datagram of at least 3 bytes with FRAG # 0 is
\* dropped with result Ok (request handling not entered, indices and
\* allocator as before); with FRAG = 0 request handling gets exactly the
\* bytes from offset 3 on.
InvC10 ==
    (sslocal /\ GotDatagram /\ Len(Dgram) >= 3)
        => IF Dgram[3] # 0
           THEN /\ last.res = "Ok"
                /\ ~last.requested
                /\ ~last.delivered
                /\ last.kept
           ELSE /\ last.requested
                /\ last.request = SubSeq(Dgram, 4, Len(Dgram))

\* the client dropped a fragment whose remainder is a valid request, while
\* a session exists
WitC10 ==
    /\ sslocal
    /\ GotDatagram
    /\ Len(Dgram) >= 3
    /\ Dgram[3] # 0
    /\ parse_header(SubSeq(Dgram, 4, Len(Dgram))).ok
    /\ ~last.requested
    /\ DOMAIN cache # {}

\* request handling was entered with data whose header parses / does not
ValidRequest == GotDatagram /\ last.requested /\ parse_header(last.request).ok

InvalidRequest == GotDatagram /\ last.requested /\ ~parse_header(last.request).ok

\* C11: a datagram whose header does not parse gives InvalidHeader, takes no
\* token, reaches no handler and leaves the indices and the allocator as
\* they were, for a known and for an unknown source; a session is created
\* only for an unknown source and a header that parses.
InvC11 ==
    /\ InvalidRequest
           => /\ last.res = "InvalidHeader"
              /\ last.alloc = NoToken
              /\ ~last.delivered
              /\ last.kept
              /\ ~panicked
    /\ (last.op = "listen" /\ (Did("new") \/ last.alloc # NoToken))
           => (ValidRequest /\ ~last.known)

\* a malformed request arrived from a source that has a session
WitC11 ==
    /\ InvalidRequest
    /\ Len(last.request) > 0
    /\ last.known
    /\ last.res = "InvalidHeader"
    /\ last.input.recv.addr \in DOMAIN cache

\* with every token of the pool taken
C12Exhausted ==
    (ValidRequest /\ ~last.known /\ last.full)
        => /\ last.res = "AllocTokenFailed"
           /\ last.alloc = NoToken
           /\ ~Did("new")
           /\ last.kept
           /\ ~panicked
           /\ receive_buf = "Some"

\* with a free token and collaborators that succeed
C12Later ==
    (/\ ValidRequest /\ ~last.known /\ ~last.full
     /\ last.input.env.newOk /\ last.input.env.regOk)
        => /\ last.alloc # NoToken
           /\ last.input.recv.addr \in DOMAIN cache
           /\ cache[last.input.recv.addr].token = last.alloc

\* C12: with every token of the pool taken, a valid datagram from a source
\* without a session gives AllocTokenFailed: no session is created, the
\* indices and the allocator stay as they were and the relay does not panic;
\* and whenever a token is free, a valid datagram from a source without a
\* session creates one (if the handler can be built and registered).
InvC12 == C12Exhausted /\ C12Later

\* the pool was exhausted for a new source while another session is live
WitC12 ==
    /\ ValidRequest
    /\ ~last.known
    /\ last.full
    /\ last.res = "AllocTokenFailed"
    /\ DOMAIN processors # {}
    /\ InvC1

\* the session of last.token is gone: in neither index, its token free
Gone ==
    /\ last.token \notin DOMAIN processors
    /\ last.token \notin CacheTokens
    /\ last.victim.addr \notin DOMAIN cache
    /\ last.token \notin allocated

Count(label) ==
    Cardinality({ i \in 1..Len(last.trace) : last.trace[i] = label })

\* C13 as stated: for every readiness notification of the listening token
\* the listener is rearmed exactly once, before the receive and before any
\* processing, error readiness included.
CexC13 ==
    last.op = "listen"
        => /\ Count("reregister") = 1
           /\ last.trace[1] = "reregister"
           /\ armed

\* C13: for every readiness notification of the listening token, error
\* readiness included, reregister is called exactly once and is the first
\* step, before the receive and any processing; when it succeeds the
\* listener is armed again, when it fails handle_events returns that error
\* without receiving or touching a session and the listener stays disarmed.
InvC13 ==
    last.op = "listen"
        => /\ Count("reregister") + Count("reregister:err") = 1
           /\ last.trace[1] \in {"reregister", "reregister:err"}
           /\ last.input.env.reregOk
                  => (armed /\ last.trace[1] = "reregister")
           /\ ~last.input.env.reregOk
                  => /\ ~armed
                     /\ last.trace = <<"reregister:err">>
                     /\ last.res = "ReregisterFailed"
                     /\ last.kept
           /\ (last.input.events = "error" /\ last.input.env.reregOk)
                  => (last.trace = <<"reregister">> /\ last.res = "EventError")

\* error readiness was delivered and the listener is armed again
WitC13 ==
    /\ last.op = "listen"
    /\ last.input.events = "error"
    /\ last.trace = <<"reregister">>
    /\ armed

\* C14: ready for a session token: without a session nothing happens; with
\* a session whose handler succeeds the session stays; with a session whose
\* handler fails (ConnectionClosed or not) the session is destroyed in that
\* callback and no other session is touched.
InvC14 ==
    last.op = "ready"
        => /\ ~panicked
           /\ ~last.present => (last.kept /\ last.trace = <<>>)
           /\ (last.present /\ last.input.events = "Ok")
                  => (last.kept /\ processors[last.token] = last.victim)
           /\ (last.present /\ last.input.events # "Ok")
                  => (Gone /\ Did("destroy") /\ last.othersKept)

\* a handler reported ConnectionClosed and its session was destroyed while
\* another session stays
WitC14 ==
    /\ last.op = "ready"
    /\ last.present
    /\ last.input.events = "ConnectionClosed"
    /\ Gone
    /\ DOMAIN cache # {}

\* C15: a timeout for a token that is mapped to a session destroys the
\* session: it is in neither index and its token is free; a valid datagram
\* from a source without a session (as this source now is) creates a new
\* session under the token the allocator hands out.
InvC15 ==
    /\ (last.op = "timeout" /\ last.present)
           => (~panicked /\ Gone /\ Did("destroy") /\ last.othersKept)
    /\ (ValidRequest /\ ~last.known /\ Did("register"))
           => LET a == last.input.recv.addr IN
              /\ a \in DOMAIN cache
              /\ cache[a] = [token |-> last.alloc, addr |-> a]
              /\ processors[last.alloc] = cache[a]

\* a timeout destroyed a session while another session stays
WitC15 ==
    /\ last.op = "timeout"
    /\ last.present
    /\ Gone
    /\ last.victim.addr \in Addrs
    /\ DOMAIN cache # {}

\* C16: a timer left pending by a destroyed session, firing while a later
\* session holds the recycled token, does not destroy that session.
CexC16 ==
    (last.op = "timeout" /\ last.firing = "stale" /\ last.present)
        => /\ ~Did("destroy")
           /\ last.token \in DOMAIN processors
           /\ processors[last.token] = last.victim
           /\ last.victim.addr \in DOMAIN cache
           /\ cache[last.victim.addr] = last.victim

\* position of the first occurrence of a label in the last callback's trace
\* (0 when it does not occur)
Pos(label) ==
    IF Did(label)
    THEN CHOOSE i \in 1..Len(last.trace) :
             /\ last.trace[i] = label
             /\ \A j \in 1..(i - 1) : last.trace[j] # label
    ELSE 0

\* the callback set out to destroy a session: a handler error in ready, a
\* timeout for a mapped token, a registration failure
Destroying ==
    \/ (last.op = "ready" /\ last.present /\ last.input.events # "Ok")
    \/ (last.op = "timeout" /\ last.present)
    \/ (last.op = "listen" /\ Did("register:err"))

\* C17: every destruction tears the handler down first, then removes the
\* session from both indices, and only then releases the token.
CexC17 ==
    Destroying
        => /\ 0 < Pos("destroy")
           /\ Pos("destroy") < Pos("processors.remove")
           /\ Pos("destroy") < Pos("cache.remove")
           /\ Pos("processors.remove") < Pos("free_token")
           /\ Pos("cache.remove") < Pos("free_token")

\* C18: the handler's handle_request is called only with a non-empty
\* payload after the destination header.
CexC18 ==
    (ValidRequest /\ last.delivered)
        => Len(last.request) > parse_header(last.request).length

\* C19: at the end of every callback each token taken from the allocator
\* is mapped to a session in the id index.
CexC19 == allocated \subseteq DOMAIN processors

\* C20: when the handler's handle_request fails on the listening-socket
\* path the error is only reported: the session the datagram was delivered
\* to is in both indices and holds its token, and nothing else changed
\* either; a session created by that datagram stays as well.
InvC20 ==
    (GotDatagram /\ last.delivered /\ ~last.input.env.hrOk)
        => LET a == last.input.recv.addr IN
           /\ last.res = "HandlerError"
           /\ ~panicked
           /\ ~Did("destroy")
           /\ a \in DOMAIN cache
           /\ cache[a] = last.target
           /\ last.target.token \in DOMAIN processors
           /\ processors[last.target.token] = last.target
           /\ last.target.token \in allocated
           /\ last.othersKept
           /\ last.known => last.kept
           /\ ~last.known => last.target.token = last.alloc

\* the handler failed on the datagram that created its session
WitC20 ==
    /\ GotDatagram
    /\ last.delivered
    /\ ~last.input.env.hrOk
    /\ ~last.known
    /\ Did("register")
    /\ last.input.recv.addr \in DOMAIN cache

====
